---- MODULE Spec2Model ----
(***************************************************************************)
(* The N-body engine of Rnbody.py (leapfrog in a rotating frame, with      *)
(* centre-of-mass recording, flattening, period detection and the plot     *)
(* helper's mask extraction) and of Integrator.py (semi-implicit Euler in  *)
(* the inertial frame), as a state machine.                                *)
(*                                                                         *)
(* Arithmetic.  The program computes in numpy doubles and the spec speaks  *)
(* of reals.  A number is modelled as an exact rational <<n, d>> in lowest *)
(* terms with d > 0; <<0, 0>> is the non-finite value (numpy's nan/inf),   *)
(* which every operation propagates and every comparison rejects.  Sums,   *)
(* differences, products and quotients are exact.  The square root leaves  *)
(* the rationals: it is rounded down at the resolution of its argument     *)
(* (norm) or to an integer (RSqrt), and the pairwise force term, which     *)
(* contains it, is rounded toward zero to an integer.  Rounding toward     *)
(* zero commutes with negation, as IEEE round-to-nearest does.             *)
(***************************************************************************)
EXTENDS Integers, Sequences, FiniteSets, TLC

\* Largest number of loop iterations a run is asked for.
MaxSteps == 3

----------------------------------------------------------------------------
\* Scalars

Abs(a) == IF a < 0 THEN -a ELSE a

RECURSIVE GCD(_, _)
GCD(a, b) == IF b = 0 THEN a ELSE GCD(b, a % b)

LCM(a, b) == (a \div GCD(a, b)) * b

\* Integer quotient rounded toward zero (b > 0).
TruncDiv(a, b) == IF a >= 0 THEN a \div b ELSE -((-a) \div b)

RECURSIVE ISqrtIn(_, _, _)
ISqrtIn(n, lo, hi) ==
    IF lo >= hi THEN lo
    ELSE LET mid == (lo + hi + 1) \div 2
         IN IF mid * mid <= n THEN ISqrtIn(n, mid, hi) ELSE ISqrtIn(n, lo, mid - 1)

\* floor(sqrt(n)) for 0 <= n < 2^31.
ISqrt(n) == ISqrtIn(n, 0, IF n < 46340 THEN n ELSE 46340)

NaN == <<0, 0>>

IsFinite(p) == p[2] # 0

\* The rational n/d in lowest terms; a zero denominator is non-finite.
Rat(n, d) ==
    IF d = 0 THEN NaN
    ELSE LET g == GCD(Abs(n), Abs(d))
             s == IF d < 0 THEN -1 ELSE 1
         IN <<s * (n \div g), s * (d \div g)>>

Whole(n) == <<n, 1>>

RAdd(p, q) ==
    IF p[2] = 0 \/ q[2] = 0 THEN NaN
    ELSE LET l == LCM(p[2], q[2])
         IN Rat(p[1] * (l \div p[2]) + q[1] * (l \div q[2]), l)

RNeg(p) == <<-p[1], p[2]>>

RSub(p, q) == RAdd(p, RNeg(q))

RMul(p, q) ==
    IF p[2] = 0 \/ q[2] = 0 THEN NaN
    ELSE LET g1 == GCD(Abs(p[1]), q[2])
             g2 == GCD(Abs(q[1]), p[2])
         IN Rat((p[1] \div g1) * (q[1] \div g2), (p[2] \div g2) * (q[2] \div g1))

RDiv(p, q) ==
    IF p[2] = 0 \/ q[2] = 0 \/ q[1] = 0 THEN NaN
    ELSE RMul(p, IF q[1] < 0 THEN <<-q[2], -q[1]>> ELSE <<q[2], q[1]>>)

\* np.less on scalars: false as soon as an operand is non-finite.
RLess(p, q) == p[2] # 0 /\ q[2] # 0 /\ p[1] * q[2] < q[1] * p[2]

\* A rational rounded toward zero to an integer.
RTrunc(p) == IF p[2] = 0 THEN NaN ELSE Whole(TruncDiv(p[1], p[2]))

\* np.sqrt, rounded down to an integer.
RSqrt(p) ==
    IF p[2] = 0 \/ p[1] < 0 THEN NaN ELSE Whole(ISqrt(p[1] \div p[2]))

----------------------------------------------------------------------------
\* 3-vectors (numpy arrays of shape (3,))

Axes == 1..3

Zero3 == <<Whole(0), Whole(0), Whole(0)>>

VAdd(u, v) == [a \in Axes |-> RAdd(u[a], v[a])]

VSub(u, v) == [a \in Axes |-> RSub(u[a], v[a])]

VScale(c, v) == [a \in Axes |-> RMul(c, v[a])]

VDiv(v, c) == [a \in Axes |-> RDiv(v[a], c)]

VFinite(v) == \A a \in Axes : IsFinite(v[a])

\* np.cross(u, v)
cross(u, v) ==
    <<RSub(RMul(u[2], v[3]), RMul(u[3], v[2])),
      RSub(RMul(u[3], v[1]), RMul(u[1], v[3])),
      RSub(RMul(u[1], v[2]), RMul(u[2], v[1]))>>

\* np.linalg.norm(v): sqrt(v.v), rounded down at the resolution of v.
norm(v) ==
    IF ~VFinite(v) THEN NaN
    ELSE LET D  == LCM(LCM(v[1][2], v[2][2]), v[3][2])
             R  == [a \in Axes |-> v[a][1] * (D \div v[a][2])]
             RR == R[1] * R[1] + R[2] * R[2] + R[3] * R[3]
         IN Rat(ISqrt(RR), D)

RECURSIVE VSum(_, _)
\* The sum of the 3-vectors f[1..n].
VSum(f, n) == IF n = 0 THEN Zero3 ELSE VAdd(VSum(f, n - 1), f[n])

RECURSIVE RSum(_, _)
RSum(f, n) == IF n = 0 THEN Whole(0) ELSE RAdd(RSum(f, n - 1), f[n])

----------------------------------------------------------------------------
\* Bodies and forces

\* class Body: mass, position, velocity.
Body(mass, position, velocity) ==
    [mass |-> mass, position |-> position, velocity |-> velocity]

\* Rnbody.py: G = 1.
G_rotating == Whole(1)

\* Integrator.py: G = 6.67430e-11, written in units of 1e-11 (mass unit
\* 1e11 kg), which keeps its digits within the integers of the checker.
G_inertial == Rat(66743, 10000)

NaN3 == <<NaN, NaN, NaN>>

\* pair_force with the mass of body i used twice (m_i * m_i for m_i * m_j).
pair_force_own_mass(G, bs, i, j) ==
    LET r == VSub(bs[j].position, bs[i].position)
        n == norm(r)
        g == RMul(RMul(G, bs[i].mass), bs[i].mass)
    IN IF ~IsFinite(g) \/ ~IsFinite(n) \/ n[1] = 0 THEN NaN3
       ELSE [a \in Axes |->
               Whole(TruncDiv(TruncDiv(TruncDiv(TruncDiv(TruncDiv(
                   g[1] * r[a][1] * n[2] * n[2] * n[2],
                   g[2]), r[a][2]), n[1]), n[1]), n[1]))]

\* The body of the inner loop: r = bodies[j].position - bodies[i].position and
\* the term G * m_i * m_j * r / norm(r)**3 added to the force on body i.  With
\* g = G * m_i * m_j and norm(r) = n, component a is g * r[a] / n^3 rounded
\* toward zero; dividing by the factors of the denominator one after the other
\* yields the same integer without forming their product.
pair_force(G, bs, i, j) ==
    LET r == VSub(bs[j].position, bs[i].position)
        n == norm(r)
        g == RMul(RMul(G, bs[i].mass), bs[j].mass)
    IN IF ~IsFinite(g) \/ ~IsFinite(n) \/ n[1] = 0 THEN NaN3
       ELSE [a \in Axes |->
               Whole(TruncDiv(TruncDiv(TruncDiv(TruncDiv(TruncDiv(
                   g[1] * r[a][1] * n[2] * n[2] * n[2],
                   g[2]), r[a][2]), n[1]), n[1]), n[1]))]

RECURSIVE force_on(_, _, _, _)
\* force = zeros(3); for j in range(n): if i != j: force += term(i, j)
force_on(G, bs, i, j) ==
    IF j = 0 THEN Zero3
    ELSE IF i # j THEN VAdd(force_on(G, bs, i, j - 1), pair_force(G, bs, i, j))
         ELSE force_on(G, bs, i, j - 1)

\* compute_forces(bodies): one force per body.
forces_with(G, bs) == [i \in 1..Len(bs) |-> force_on(G, bs, i, Len(bs))]

compute_forces(bs) == forces_with(G_rotating, bs)

compute_forces_inertial(bs) == forces_with(G_inertial, bs)

----------------------------------------------------------------------------
\* Integrator.py: semi-implicit Euler in the inertial frame

RECURSIVE euler_loop_fresh_forces(_, _, _, _)
\* euler_loop with the force on body i recomputed from the bodies as updated so
\* far, instead of read from the forces computed before the loop.
euler_loop_fresh_forces(bs, forces, d, i) ==
    IF i = 0 THEN bs
    ELSE LET done == euler_loop_fresh_forces(bs, forces, d, i - 1)
             f    == compute_forces_inertial(done)[i]
             v    == VAdd(done[i].velocity, VScale(d, VDiv(f, done[i].mass)))
             x    == VAdd(done[i].position, VScale(d, v))
         IN [done EXCEPT ![i] = Body(done[i].mass, x, v)]

RECURSIVE euler_loop(_, _, _, _)
\* for i in range(n): velocity += forces[i] / mass * dt; position += velocity * dt
\* (bodies 1..i of bs updated, in index order).
euler_loop(bs, forces, d, i) ==
    IF i = 0 THEN bs
    ELSE LET done == euler_loop(bs, forces, d, i - 1)
             v    == VAdd(done[i].velocity, VScale(d, VDiv(forces[i], done[i].mass)))
             x    == VAdd(done[i].position, VScale(d, v))
         IN [done EXCEPT ![i] = Body(done[i].mass, x, v)]

\* integrate(bodies, dt) of Integrator.py.
integrate_inertial(bs, d) ==
    LET forces == compute_forces_inertial(bs)
    IN euler_loop(bs, forces, d, Len(bs))

----------------------------------------------------------------------------
\* Rnbody.py: leapfrog in the rotating frame

RECURSIVE drift_loop(_, _, _)
\* for i in range(n): bodies[i].position += dt * bodies[i].velocity
drift_loop(bs, d, i) ==
    IF i = 0 THEN bs
    ELSE LET done == drift_loop(bs, d, i - 1)
         IN [done EXCEPT ![i].position = VAdd(@, VScale(d, done[i].velocity))]

RECURSIVE kick_loop_centrifugal_first(_, _, _, _, _)
\* kick_loop with the two frame corrections exchanged, so that the Coriolis
\* term reads the velocity the centrifugal term has already changed.
kick_loop_centrifugal_first(bs, forces, d, omega, i) ==
    IF i = 0 THEN bs
    ELSE LET done == kick_loop_centrifugal_first(bs, forces, d, omega, i - 1)
             v1   == VAdd(done[i].velocity, VScale(d, VDiv(forces[i], done[i].mass)))
             v2   == VSub(v1, VScale(d, cross(omega, cross(omega, done[i].position))))
             v3   == VSub(v2, VScale(d, VScale(Whole(2), cross(omega, v2))))
         IN [done EXCEPT ![i].velocity = v3]

RECURSIVE kick_loop(_, _, _, _, _)
\* for i in range(n):
\*     velocity += forces[i] / mass * dt
\*     velocity -= 2 * cross(omega, velocity) * dt
\*     velocity -= cross(omega, cross(omega, position)) * dt
kick_loop(bs, forces, d, omega, i) ==
    IF i = 0 THEN bs
    ELSE LET done == kick_loop(bs, forces, d, omega, i - 1)
             v1   == VAdd(done[i].velocity, VScale(d, VDiv(forces[i], done[i].mass)))
             v2   == VSub(v1, VScale(d, VScale(Whole(2), cross(omega, v1))))
             v3   == VSub(v2, VScale(d, cross(omega, cross(omega, done[i].position))))
         IN [done EXCEPT ![i].velocity = v3]

\* integrate(bodies, dt, omega) of Rnbody.py.
integrate(bs, d, omega) ==
    LET moved  == drift_loop(bs, d, Len(bs))
        forces == compute_forces(moved)
    IN kick_loop(moved, forces, d, omega, Len(bs))

RECURSIVE total_mass(_, _)
\* tot_m = 0; for body in bodies: tot_m += body.mass
total_mass(bs, i) ==
    IF i = 0 THEN Whole(0) ELSE RAdd(total_mass(bs, i - 1), bs[i].mass)

\* ini_forces = compute_forces(bodies); velocity += (ini_forces[i] / mass) * (dt / 2)
half_kick(bs, d) ==
    LET ini_forces == compute_forces(bs)
    IN [i \in 1..Len(bs) |->
          [bs[i] EXCEPT !.velocity =
              VAdd(@, VScale(RDiv(d, Whole(2)), VDiv(ini_forces[i], bs[i].mass)))]]

\* omega = sqrt(G * (m1 + m2) / r**3) with r the separation of bodies 0 and 1;
\* omega_vector = [0, 0, omega].
frame_omega(bs) ==
    LET m1 == bs[1].mass
        m2 == bs[2].mass
        r  == norm(VSub(bs[1].position, bs[2].position))
        r3 == RMul(RMul(r, r), r)
    IN <<Whole(0), Whole(0), RSqrt(RDiv(RMul(G_rotating, RAdd(m1, m2)), r3))>>

\* current_r: the list of the bodies' position arrays, held by reference.
current_positions(bs) == [i \in 1..Len(bs) |-> bs[i].position]

\* The list current_r itself, whose entries are the bodies' own arrays.
snapshot_by_reference(bs) == [live |-> TRUE, at |-> current_positions(bs)]

\* np.array(current_r): a new array holding the values the positions have now.
snapshot(bs) == [live |-> FALSE, at |-> current_positions(bs)]

\* What a recorded entry shows when it is read while the bodies are bs.
view(entry, bs) == IF entry.live THEN current_positions(bs) ELSE entry.at

RECURSIVE weighted_sum(_, _)
\* r_cm = 0; for i in range(n): r_cm += mass * current_r[i]
weighted_sum(bs, i) ==
    IF i = 0 THEN Zero3
    ELSE VAdd(weighted_sum(bs, i - 1), VScale(bs[i].mass, bs[i].position))

\* cm_frame with the plain mean of the positions for the mass-weighted one.
cm_frame_unweighted(bs, tot) ==
    LET r_cm == VDiv(VSum(current_positions(bs), Len(bs)), Whole(Len(bs)))
    IN [i \in 1..Len(bs) |-> VSub(bs[i].position, r_cm)]

\* r_cm /= tot_m; current_r_cm = np.array(current_r) - r_cm
cm_frame(bs, tot) ==
    LET r_cm == VDiv(weighted_sum(bs, Len(bs)), tot)
    IN [i \in 1..Len(bs) |-> VSub(bs[i].position, r_cm)]

----------------------------------------------------------------------------
\* Export and diagnostics

RECURSIVE flatten_snapshot(_, _)
\* The coordinates of bodies 1..i of one snapshot, body by body, axis by axis.
flatten_snapshot(snap, i) ==
    IF i = 0 THEN <<>>
    ELSE flatten_snapshot(snap, i - 1) \o <<snap[i][1], snap[i][2], snap[i][3]>>

RECURSIVE flatten_steps(_, _)
flatten_steps(r_arr, n) ==
    IF n = 0 THEN <<>>
    ELSE flatten_steps(r_arr, n - 1) \o flatten_snapshot(r_arr[n], Len(r_arr[n]))

\* flatten in Fortran order: the first index (the step) varying fastest.
flatten_step_fastest(r_arr) ==
    LET S == Len(r_arr)
        n == IF S = 0 THEN 0 ELSE Len(r_arr[1])
    IN [p \in 1..(S * n * 3) |->
          r_arr[((p - 1) % S) + 1][(((p - 1) \div S) % n) + 1][((p - 1) \div (S * n)) + 1]]

\* np.array(r_cm_lst).flatten(): C order, the last index varying fastest.
flatten(r_arr) == flatten_steps(r_arr, Len(r_arr))

\* An index clipped into 1..L (mode='clip' of scipy's argrelextrema).
clip(n, L) == IF n < 1 THEN 1 ELSE IF n > L THEN L ELSE n

RECURSIVE relextrema_upto_nonstrict(_, _)
\* relextrema_upto with np.less_equal for np.less.
relextrema_upto_nonstrict(d_arr, n) ==
    IF n = 0 THEN <<>>
    ELSE LET rest == relextrema_upto_nonstrict(d_arr, n - 1)
             L    == Len(d_arr)
         IN IF /\ ~RLess(d_arr[clip(n + 1, L)], d_arr[n])
               /\ ~RLess(d_arr[clip(n - 1, L)], d_arr[n])
            THEN Append(rest, n - 1)
            ELSE rest

RECURSIVE relextrema_upto(_, _)
\* argrelextrema(d_arr, np.less)[0], order 1: the 0-based indices, ascending,
\* whose value is np.less than the values one place before and one place after.
relextrema_upto(d_arr, n) ==
    IF n = 0 THEN <<>>
    ELSE LET rest == relextrema_upto(d_arr, n - 1)
             L    == Len(d_arr)
         IN IF /\ RLess(d_arr[n], d_arr[clip(n + 1, L)])
               /\ RLess(d_arr[n], d_arr[clip(n - 1, L)])
            THEN Append(rest, n - 1)
            ELSE rest

argrelextrema_less(d_arr) == relextrema_upto(d_arr, Len(d_arr))

\* d_lst of compute_2_body_period: norm(each_time[1] - each_time[0]).
separations(r_arr) ==
    [n \in 1..Len(r_arr) |-> norm(VSub(r_arr[n][2], r_arr[n][1]))]

NoValue == <<>>

\* compute_2_body_period(r_arr, dt): what it prints.
compute_2_body_period(r_arr, d) ==
    LET min_d_times == argrelextrema_less(separations(r_arr))
    IN IF Len(min_d_times) > 1
       THEN [kind  |-> "period",
             value |-> RMul(Whole(min_d_times[2] - min_d_times[1]), d)]
       ELSE [kind |-> "insufficient", value |-> NoValue]

\* mask with the body offset i for 3 * i.
mask_unscaled_offset(L, n, i, rem) ==
    [p \in 1..L |->
        IF \E j \in 0..(L - 1) : j % (3 * n) = rem /\ j + i = p - 1
        THEN 1 ELSE 0]

\* mask_x (rem = 0) or mask_y (rem = 1) of plot_helper for body i (0-based):
\* for j in range(L): if j % (3 * n) == rem: mask[j + 3 * i] = 1
mask(L, n, i, rem) ==
    [p \in 1..L |->
        IF \E j \in 0..(L - 1) : j % (3 * n) = rem /\ j + 3 * i = p - 1
        THEN 1 ELSE 0]

\* An assignment mask[j + 3 * i] = 1 outside the mask: numpy's IndexError.
mask_overrun(L, n, i) ==
    \E j \in 0..(L - 1) : j % (3 * n) \in {0, 1} /\ j + 3 * i >= L

RECURSIVE select(_, _, _)
\* flat_r_arr[mask != 0], elements 1..p.
select(flat, m, p) ==
    IF p = 0 THEN <<>>
    ELSE IF m[p] # 0 THEN Append(select(flat, m, p - 1), flat[p])
         ELSE select(flat, m, p - 1)

\* plot_helper(bodies, flat_r_arr): the x and y series scattered for each body.
plot_helper(bs, flat) ==
    LET L == Len(flat)
        n == Len(bs)
    IN [i \in 1..n |->
          <<select(flat, mask(L, n, i - 1, 0), L),
            select(flat, mask(L, n, i - 1, 1), L)>>]

plot_helper_raises(bs, flat) ==
    \E i \in 1..Len(bs) : mask_overrun(Len(flat), Len(bs), i - 1)

----------------------------------------------------------------------------
\* Inputs

\* Largest number of bodies handed to a run.
MaxBodies == 3

\* Longest array handed to a direct call of compute_2_body_period.
MaxLen == 5

Vec(x, y, z) == <<Whole(x), Whole(y), Whole(z)>>

\* Bodies of the scenarios written in Rnbody.py (integer data).
Pool ==
    { Body(Whole(1), Vec(0, 0, 0), Vec(1, 0, 0)),
      Body(Whole(2), Vec(1, 1, 0), Vec(-1, 0, 0)),
      Body(Whole(2), Vec(0, 1, 0), Vec(1, 0, 0)),
      Body(Whole(1), Vec(0, 0, -1), Vec(0, 0, 1)) }

RECURSIVE BodyLists(_)
\* The lists of exactly n bodies of Pool, no body twice (so positions are
\* pairwise distinct).
BodyLists(n) ==
    IF n = 0 THEN {<<>>}
    ELSE UNION {{Append(bs, b) :
                    b \in {c \in Pool : \A i \in 1..Len(bs) : bs[i] # c}} :
                bs \in BodyLists(n - 1)}

Configs == UNION {BodyLists(n) : n \in 0..MaxBodies}

\* Time steps a caller may pass: a valid one, zero and a negative one.
Dts == {Whole(1), Whole(0), Whole(-1)}

\* Centre-of-mass frame positions of two equal masses: the second mirrors
\* the first.  Separations 2, 2 (2 * sqrt(2) rounded down) and 4.
Mirrored == { <<Vec(1, 0, 0), Vec(-1, 0, 0)>>,
              <<Vec(1, 1, 0), Vec(-1, -1, 0)>>,
              <<Vec(0, 2, 0), Vec(0, -2, 0)>> }

RECURSIVE Arrays(_)
\* The position arrays of exactly n time steps over Mirrored.
Arrays(n) ==
    IF n = 0 THEN {<<>>}
    ELSE {Append(t, e) : t \in Arrays(n - 1), e \in Mirrored}

PeriodDts == {Whole(1), Rat(1, 2)}

----------------------------------------------------------------------------
\* State

VARIABLES
    pc,            \* where the caller is
    bodies,        \* the list of Body objects the run mutates in place
    dt,            \* the time step passed
    steps,         \* the number of steps passed
    k,             \* loop iterations completed (integrate calls made)
    tot_m,         \* total mass, computed before the loop
    omega_vector,  \* angular velocity of the frame
    r_lst,         \* absolute positions recorded
    r_cm_lst,      \* centre-of-mass frame positions recorded
    r_arr,         \* the array flattened and handed to the period diagnostic
    flat_r_arr,    \* the value returned
    period,        \* what compute_2_body_period printed
    plot,          \* what plot_helper scattered
    given,         \* history: the bodies as the caller passed them
    trail          \* history: the bodies at loop entry and after each integrate call

vars == <<pc, bodies, dt, steps, k, tot_m, omega_vector, r_lst, r_cm_lst,
          r_arr, flat_r_arr, period, plot, given, trail>>

NotRun == [kind |-> "none", value |-> NoValue]

Init ==
    /\ pc = "idle"
    /\ bodies = <<>>
    /\ dt = Whole(0)
    /\ steps = 0
    /\ k = 0
    /\ tot_m = Whole(0)
    /\ omega_vector = Zero3
    /\ r_lst = <<>>
    /\ r_cm_lst = <<>>
    /\ r_arr = <<>>
    /\ flat_r_arr = <<>>
    /\ period = NotRun
    /\ plot = <<>>
    /\ given = <<>>
    /\ trail = <<>>

\* loop_body recording after the integrate call instead of before it.
loop_body_record_after(bs, tot, d, omega) ==
    LET after == integrate(bs, d, omega)
    IN [abs    |-> snapshot(after),
        cm     |-> cm_frame(after, tot),
        bodies |-> after]

\* One pass of the loop of solve_n_body_problem (Rnbody.py): record, then
\* integrate.
loop_body(bs, tot, d, omega) ==
    [abs    |-> snapshot(bs),
     cm     |-> cm_frame(bs, tot),
     bodies |-> integrate(bs, d, omega)]

\* solve_n_body_problem(bodies, dt, steps) of Rnbody.py up to its loop.  With
\* fewer than two bodies, bodies[0] or bodies[1] raises IndexError.
SolveRotating ==
    \E bs \in Configs, d \in Dts, s \in 0..MaxSteps :
        /\ pc = "idle"
        /\ given' = bs
        /\ dt' = d
        /\ steps' = s
        /\ tot_m' = total_mass(bs, Len(bs))
        /\ bodies' = half_kick(bs, d)
        /\ trail' = <<half_kick(bs, d)>>
        /\ IF Len(bs) < 2
           THEN pc' = "error" /\ omega_vector' = omega_vector
           ELSE pc' = "loop" /\ omega_vector' = frame_omega(bs)
        /\ UNCHANGED <<k, r_lst, r_cm_lst, r_arr, flat_r_arr, period, plot>>

Iterate ==
    /\ pc = "loop"
    /\ k < steps
    /\ LET pass == loop_body(bodies, tot_m, dt, omega_vector)
       IN /\ r_lst' = Append(r_lst, pass.abs)
          /\ r_cm_lst' = Append(r_cm_lst, pass.cm)
          /\ bodies' = pass.bodies
          /\ trail' = Append(trail, pass.bodies)
    /\ k' = k + 1
    /\ UNCHANGED <<pc, dt, steps, tot_m, omega_vector, r_arr, flat_r_arr,
                   period, plot, given>>

\* After the loop: r_arr, its flattening, the period diagnostic for two
\* bodies, return.
Finish ==
    /\ pc = "loop"
    /\ k = steps
    /\ r_arr' = r_cm_lst
    /\ flat_r_arr' = flatten(r_cm_lst)
    /\ period' = IF Len(bodies) = 2
                 THEN compute_2_body_period(r_cm_lst, dt)
                 ELSE period
    /\ pc' = "done"
    /\ UNCHANGED <<bodies, dt, steps, k, tot_m, omega_vector, r_lst, r_cm_lst,
                   plot, given, trail>>

\* plot_helper(bodies, flat_r_arr) on the returned array.
Plot ==
    /\ pc = "done"
    /\ IF plot_helper_raises(bodies, flat_r_arr)
       THEN pc' = "plot_error" /\ plot' = plot
       ELSE pc' = "plotted" /\ plot' = plot_helper(bodies, flat_r_arr)
    /\ UNCHANGED <<bodies, dt, steps, k, tot_m, omega_vector, r_lst, r_cm_lst,
                   r_arr, flat_r_arr, period, given, trail>>

\* A direct call compute_2_body_period(r_arr, dt).
CallPeriod ==
    \E n \in 0..MaxLen, d \in PeriodDts :
        \E t \in Arrays(n) :
            /\ pc = "idle"
            /\ r_arr' = t
            /\ dt' = d
            /\ period' = compute_2_body_period(t, d)
            /\ pc' = "period_done"
            /\ UNCHANGED <<bodies, steps, k, tot_m, omega_vector, r_lst,
                           r_cm_lst, flat_r_arr, plot, given, trail>>

\* solve_n_body_problem(bodies, dt, steps) of Integrator.py.
SolveInertial ==
    \E bs \in Configs, d \in Dts, s \in 0..MaxSteps :
        /\ pc = "idle"
        /\ given' = bs
        /\ bodies' = bs
        /\ trail' = <<bs>>
        /\ dt' = d
        /\ steps' = s
        /\ pc' = "inertial"
        /\ UNCHANGED <<k, tot_m, omega_vector, r_lst, r_cm_lst, r_arr,
                       flat_r_arr, period, plot>>

IterateInertial ==
    /\ pc = "inertial"
    /\ k < steps
    /\ bodies' = integrate_inertial(bodies, dt)
    /\ trail' = Append(trail, integrate_inertial(bodies, dt))
    /\ k' = k + 1
    /\ UNCHANGED <<pc, dt, steps, tot_m, omega_vector, r_lst, r_cm_lst, r_arr,
                   flat_r_arr, period, plot, given>>

FinishInertial ==
    /\ pc = "inertial"
    /\ k = steps
    /\ pc' = "inertial_done"
    /\ UNCHANGED <<bodies, dt, steps, k, tot_m, omega_vector, r_lst, r_cm_lst,
                   r_arr, flat_r_arr, period, plot, given, trail>>

Next ==
    \/ SolveRotating
    \/ Iterate
    \/ Finish
    \/ Plot
    \/ CallPeriod
    \/ SolveInertial
    \/ IterateInertial
    \/ FinishInertial

Spec == Init /\ [][Next]_vars

----------------------------------------------------------------------------
\* Properties

VNeg(v) == [a \in Axes |-> RNeg(v[a])]

InRotatingRun == pc \in {"loop", "done", "plotted", "plot_error"}

InInertialRun == pc \in {"inertial", "inertial_done"}

PositionsFinite(ps) == \A i \in 1..Len(ps) : VFinite(ps[i])

BodiesFinite(bs) ==
    \A i \in 1..Len(bs) : VFinite(bs[i].position) /\ VFinite(bs[i].velocity)

PairwiseDistinct(bs) ==
    \A i, j \in 1..Len(bs) : i # j => bs[i].position # bs[j].position

\* C1: a finished rotating-frame run of n >= 2 bodies returns exactly
\* steps * n * 3 numbers; every recorded snapshot has n positions of 3
\* coordinates; and the element at (0-based) index 3*n*s + 3*i + a is
\* coordinate a of body i in the s-th recorded centre-of-mass snapshot.
Thm_C1_FlatLayout ==
    pc \in {"done", "plotted"} =>
        LET n == Len(bodies)
        IN /\ n >= 2
           /\ Len(r_cm_lst) = steps
           /\ Len(flat_r_arr) = steps * n * 3
           /\ \A s \in 1..steps :
                 /\ Len(r_cm_lst[s]) = n
                 /\ Len(r_lst[s].at) = n
                 /\ \A i \in 0..(n - 1) :
                       /\ Len(r_cm_lst[s][i + 1]) = 3
                       /\ \A a \in 0..2 :
                             flat_r_arr[3 * n * (s - 1) + 3 * i + a + 1]
                                 = r_cm_lst[s][i + 1][a + 1]

\* A run of three bodies over at least two steps has returned finite numbers
\* that differ between the first body's x at step 0 and at step 1.
Wit_C1_ThreeBodiesReturned ==
    /\ pc = "done"
    /\ Len(bodies) = 3
    /\ steps >= 2
    /\ \A p \in 1..Len(flat_r_arr) : IsFinite(flat_r_arr[p])
    /\ flat_r_arr[1] # flat_r_arr[10]
    /\ flat_r_arr[1] # flat_r_arr[4]

\* C3: during and after a rotating-frame run the total mass is the sum of the
\* masses passed, no mass has changed, every recorded centre-of-mass entry is
\* the recorded absolute position minus (sum of mass_j * position_j) /
\* total mass, and for every recorded step with finite positions the sum over
\* the bodies of mass_i times the recorded centre-of-mass position is zero.
Thm_C3_CentreOfMass ==
    InRotatingRun =>
        LET n == Len(bodies)
        IN /\ tot_m = RSum([i \in 1..n |-> given[i].mass], n)
           /\ \A i \in 1..n : bodies[i].mass = given[i].mass
           /\ \A s \in 1..Len(r_cm_lst) :
                 LET abs == r_lst[s].at
                     sum == VSum([j \in 1..n |-> VScale(given[j].mass, abs[j])], n)
                 IN /\ \A i \in 1..n :
                          r_cm_lst[s][i] = VSub(abs[i], VDiv(sum, tot_m))
                    /\ PositionsFinite(abs) =>
                          VSum([i \in 1..n |->
                                   VScale(given[i].mass, r_cm_lst[s][i])], n) = Zero3

\* Two snapshots of three bodies are recorded, the second finite, with a
\* centre of mass away from the origin and bodies of different masses.
Wit_C3_OffCentre ==
    /\ InRotatingRun
    /\ Len(bodies) = 3
    /\ Len(r_cm_lst) >= 2
    /\ PositionsFinite(r_lst[2].at)
    /\ \A i \in 1..3 : r_cm_lst[2][i] # r_lst[2].at[i]
    /\ bodies[1].mass # bodies[2].mass

\* What C6 states of one evaluation of the force law with constant G.
ForceLaw(G, bs) ==
    LET n == Len(bs)
        F == forces_with(G, bs)
    IN /\ \A i, j \in 1..n :
             i # j => pair_force(G, bs, i, j) = VNeg(pair_force(G, bs, j, i))
       /\ \A i \in 1..n :
             LET others == SelectSeq([j \in 1..n |-> j], LAMBDA j : j # i)
             IN F[i] = VSum([m \in 1..Len(others) |->
                                pair_force(G, bs, i, others[m])], Len(others))
       /\ VSum(F, n) = Zero3

\* C6: evaluated on bodies at finite, pairwise distinct positions, the term
\* body j adds to the force on body i is the negative of the term body i adds
\* to the force on body j, the force on a body is the sum of the terms of the
\* other bodies only, and the forces of all bodies sum to zero (Rnbody.py's
\* compute_forces in a rotating-frame run, Integrator.py's in an inertial one).
Thm_C6_ForceSymmetry ==
    /\ (InRotatingRun /\ BodiesFinite(bodies) /\ PairwiseDistinct(bodies))
           => ForceLaw(G_rotating, bodies)
    /\ (InInertialRun /\ BodiesFinite(bodies) /\ PairwiseDistinct(bodies))
           => ForceLaw(G_inertial, bodies)

\* Three bodies of different masses at distinct finite positions, each with a
\* non-zero force on it.
Wit_C6_ThreeBodiesPulling ==
    /\ InRotatingRun
    /\ Len(bodies) = 3
    /\ BodiesFinite(bodies)
    /\ PairwiseDistinct(bodies)
    /\ bodies[1].mass # bodies[2].mass
    /\ \A i \in 1..3 : compute_forces(bodies)[i] # Zero3

\* The series of coordinate a of body i over the steps of trajectory T.
Series(T, i, a) == [s \in 1..Len(T) |-> T[s][i][a]]

InteriorMinima(d_arr) ==
    {n \in 2..(Len(d_arr) - 1) :
        RLess(d_arr[n], d_arr[n - 1]) /\ RLess(d_arr[n], d_arr[n + 1])}

Least(S) == CHOOSE x \in S : \A y \in S : x <= y

\* C4: index n is taken as a local minimum exactly when its separation is
\* strictly less than those at n-1 and n+1 (never the first or last index,
\* never inside a plateau); with two or more such indices the period printed
\* is dt * (second - first); with fewer, "not enough data" is printed, no
\* number, and no error: a two-body run still returns its trajectory.  With
\* another number of bodies the diagnostic does not run.
Thm_C4_Period ==
    /\ period.kind # "none" =>
          LET M == InteriorMinima(separations(r_arr))
          IN IF Cardinality(M) >= 2
             THEN LET first  == Least(M)
                      second == Least(M \ {first})
                  IN period = [kind  |-> "period",
                               value |-> RMul(dt, Whole(second - first))]
             ELSE period = [kind |-> "insufficient", value |-> NoValue]
    /\ (pc \in {"done", "plotted"} /\ Len(bodies) = 2) =>
          /\ period.kind \in {"period", "insufficient"}
          /\ r_arr = r_cm_lst
          /\ Len(flat_r_arr) = steps * 2 * 3
    /\ (pc \in {"done", "plotted"} /\ Len(bodies) # 2) => period = NotRun

\* A period was printed for an array that also holds a plateau next to a
\* minimum and whose first two minima are not the only ones.
Wit_C4_PeriodPrinted ==
    /\ period.kind = "period"
    /\ Len(r_arr) = 5
    /\ period.value = dt
       \/ period.value = RMul(dt, Whole(2))

\* A two-body run returned its trajectory with "not enough data" printed.
Wit_C4_RunInsufficient ==
    /\ pc = "done"
    /\ Len(bodies) = 2
    /\ steps = 3
    /\ period.kind = "insufficient"
    /\ Len(flat_r_arr) = 18

RunRequested ==
    pc \in {"loop", "done", "plotted", "plot_error", "error", "inertial",
            "inertial_done"}

InvalidConfiguration ==
    \/ Len(given) = 0
    \/ \E i \in 1..Len(given) : ~RLess(Whole(0), given[i].mass)
    \/ ~RLess(Whole(0), dt)
    \/ pc \in {"loop", "done", "plotted", "plot_error", "error"} /\ Len(given) < 2

\* C5: a run requested with an invalid configuration is rejected with an
\* error before anything happens: no position or velocity modified, no
\* snapshot recorded, no step taken.
Cex_C5_InvalidRejected ==
    (RunRequested /\ InvalidConfiguration) =>
        /\ pc = "error"
        /\ bodies = given
        /\ r_lst = <<>>
        /\ r_cm_lst = <<>>
        /\ k = 0

\* C7: in a rotating-frame run the snapshot recorded in pass s (0-based) is
\* the position state after exactly s integrate calls, in both trajectories;
\* snapshot 0 is the configuration passed; after the run the bodies hold the
\* state after `steps` calls, which is the last snapshot drifted once with the
\* velocities of the start of the last pass, and which has no entry in either
\* trajectory (they have `steps` entries, for the states after 0..steps-1
\* calls).
Thm_C7_PreDriftSnapshots ==
    InRotatingRun =>
        /\ Len(r_lst) = k
        /\ Len(r_cm_lst) = k
        /\ Len(trail) = k + 1
        /\ pc # "loop" => k = steps
        /\ \A s \in 1..k :
              /\ view(r_lst[s], bodies) = current_positions(trail[s])
              /\ r_cm_lst[s] = cm_frame(trail[s], tot_m)
        /\ k >= 1 => view(r_lst[1], bodies) = current_positions(given)
        /\ current_positions(bodies) = current_positions(trail[k + 1])
        /\ k >= 1 =>
              \A i \in 1..Len(bodies) :
                  bodies[i].position =
                      VAdd(view(r_lst[k], bodies)[i], VScale(dt, trail[k][i].velocity))

\* A finished run of at least two steps whose final positions are finite and
\* differ from every recorded snapshot, the first two snapshots differing too.
Wit_C7_FinalBeyondLast ==
    /\ pc = "done"
    /\ steps >= 2
    /\ BodiesFinite(bodies)
    /\ \A s \in 1..steps : view(r_lst[s], bodies) # current_positions(bodies)
    /\ view(r_lst[1], bodies) # view(r_lst[2], bodies)

\* C8: one integrate(bodies, dt, omega) call of Rnbody.py, from the bodies b0
\* at its start: every position becomes x' = x + v*dt; the forces F' are those
\* of the drifted positions; every velocity becomes
\* v_k - 2*(omega x v_k)*dt - (omega x (omega x x'))*dt with
\* v_k = v + (F'/m)*dt; masses and omega are unchanged.
Thm_C8_RotatingStep ==
    (InRotatingRun /\ k >= 1) =>
        LET b0 == trail[k]
            n  == Len(b0)
            w  == omega_vector
            x1 == [i \in 1..n |-> VAdd(b0[i].position, VScale(dt, b0[i].velocity))]
            F1 == compute_forces([i \in 1..n |-> Body(b0[i].mass, x1[i], b0[i].velocity)])
            vk == [i \in 1..n |-> VAdd(b0[i].velocity, VScale(dt, VDiv(F1[i], b0[i].mass)))]
        IN /\ Len(bodies) = n
           /\ omega_vector = frame_omega(given)
           /\ \A i \in 1..n :
                 /\ bodies[i].mass = b0[i].mass
                 /\ bodies[i].position = x1[i]
                 /\ bodies[i].velocity =
                       VSub(VSub(vk[i], VScale(dt, VScale(Whole(2), cross(w, vk[i])))),
                            VScale(dt, cross(w, cross(w, x1[i]))))

\* An integrate call has acted on three bodies with dt = 1 and a rotating
\* frame: the first body moved, felt a force, and both of its frame
\* corrections were non-zero.
Wit_C8_CorrectionsApplied ==
    /\ InRotatingRun
    /\ k >= 1
    /\ Len(bodies) = 3
    /\ dt = Whole(1)
    /\ BodiesFinite(bodies)
    /\ omega_vector # Zero3
    /\ bodies[1].position # trail[k][1].position
    /\ compute_forces(bodies)[1] # Zero3
    /\ cross(omega_vector, cross(omega_vector, bodies[1].position)) # Zero3
    /\ cross(omega_vector, trail[k][1].velocity) # Zero3

\* C9: one integrate(bodies, dt) call of Integrator.py, from the bodies b0 at
\* its start: with F the forces of the positions of b0, every body gets
\* v' = v + (F/m)*dt and then x' = x + v'*dt; no force reflects a position
\* advanced in the same call, and nothing else is applied.
Thm_C9_InertialStep ==
    (InInertialRun /\ k >= 1) =>
        LET b0 == trail[k]
            n  == Len(b0)
            F  == compute_forces_inertial(b0)
        IN /\ Len(bodies) = n
           /\ \A i \in 1..n :
                 LET v1 == VAdd(b0[i].velocity, VScale(dt, VDiv(F[i], b0[i].mass)))
                 IN bodies[i] = Body(b0[i].mass, VAdd(b0[i].position, VScale(dt, v1)), v1)

\* An inertial integrate call has acted on three bodies with dt = 1, every
\* body feeling a force before the call and the last body a different force
\* after it.
Wit_C9_StepTaken ==
    /\ InInertialRun
    /\ k >= 1
    /\ Len(bodies) = 3
    /\ dt = Whole(1)
    /\ BodiesFinite(bodies)
    /\ \A i \in 1..3 : compute_forces_inertial(trail[k])[i] # Zero3
    /\ compute_forces_inertial(bodies)[3] # compute_forces_inertial(trail[k])[3]

\* C10: no step changes what an already recorded entry of either trajectory
\* shows, although the bodies' positions change in place.
Thm_C10_SnapshotsKept ==
    [][/\ Len(r_lst') >= Len(r_lst)
       /\ Len(r_cm_lst') >= Len(r_cm_lst)
       /\ \A s \in 1..Len(r_lst) : view(r_lst'[s], bodies') = view(r_lst[s], bodies)
       /\ \A s \in 1..Len(r_cm_lst) : r_cm_lst'[s] = r_cm_lst[s]]_vars

\* Three snapshots are recorded, pairwise different in both trajectories, and
\* the bodies have since moved away from each of them.
Wit_C10_DistinctSnapshots ==
    /\ pc = "done"
    /\ steps = 3
    /\ BodiesFinite(bodies)
    /\ \A s, t \in 1..3 :
          s # t => /\ view(r_lst[s], bodies) # view(r_lst[t], bodies)
                   /\ r_cm_lst[s] # r_cm_lst[t]
    /\ \A s \in 1..3 : view(r_lst[s], bodies) # current_positions(bodies)

====
